---- MODULE Spec2Model ----
(***************************************************************************)
(* URL shortener service: the in-memory URLStore (app/models.py), the code *)
(* generator and validators (app/utils.py) and the request handlers        *)
(* (app/main.py), as a state machine of concurrent request threads.        *)
(*                                                                         *)
(* Strings are sequences of one-character strings, so that lengths and     *)
(* character classes are computed, not assumed.                            *)
(***************************************************************************)
EXTENDS Integers, Sequences, FiniteSets, TLC

VARIABLES
    urls,        \* URLStore._urls: short code -> url_data
    lockOwner,   \* URLStore._lock (RLock): the owning thread, or NoThread
    lockCount,   \* URLStore._lock (RLock): its recursion level
    now,         \* the last value read from datetime.now(timezone.utc)
    op,          \* per thread: the URLStore method call in progress
    req,         \* per thread: the request handler in progress
    resp,        \* per thread: the response of its last finished request
    started,     \* number of calls / requests started so far
    addedBy,     \* history: per code, the urls of the add_url calls that returned True
    visits,      \* history: per code, the number of increment_clicks calls that returned True
    issued,      \* history: the <<code, url>> pairs answered 201 by shorten_url, in order
    gen,         \* one run of generate_short_code, step by step
    sample,      \* the characters the random draws of this run end in (never changes)
    redirects,   \* history: per code, the number of 302 responses of redirect_url
    util         \* one direct call of a validator of app/utils.py: its argument and result

vars == <<urls, lockOwner, lockCount, now, op, req, resp, started, addedBy, visits, issued, gen,
          sample, redirects, util>>

-----------------------------------------------------------------------------
(* Bounds of the model *)

NumThreads == 2
MaxCalls == 3
MaxTime == 1
NumCodes == 2

Threads == 1..NumThreads
NoThread == 0

-----------------------------------------------------------------------------
(* Values *)

EmptyStr == <<>>
NoneVal == [some |-> FALSE]
Some(v) == [some |-> TRUE, val |-> v]

\* string.ascii_letters + string.digits
ascii_lowercase == {"a","b","c","d","e","f","g","h","i","j","k","l","m",
                    "n","o","p","q","r","s","t","u","v","w","x","y","z"}
ascii_uppercase == {"A","B","C","D","E","F","G","H","I","J","K","L","M",
                    "N","O","P","Q","R","S","T","U","V","W","X","Y","Z"}
digits == {"0","1","2","3","4","5","6","7","8","9"}
chars == ascii_lowercase \cup ascii_uppercase \cup digits

\* The safe alphabet with the digit 1 left in it
safe_chars_keeping_one == {c \in chars : c \notin {"0","O","l","I"}}

\* ''.join(c for c in chars if c not in '0Ol1I')
safe_chars == {c \in chars : c \notin {"0","O","l","1","I"}}

-----------------------------------------------------------------------------
(* Bounded samples of the inputs *)

\* The characters the bounded random draws end in: safe_chars, sampled.
SampleChars == <<"f", "g", "h", "j", "k", "m">>

\* The first n of them
FirstChars(n) == {SampleChars[k] : k \in 1..n}

\* random.choice(safe_chars) for position i of a code of the given length:
\* the draws of the model differ in the last character only.
random_choice(i, length) ==
    IF i = length THEN sample \cap safe_chars
    ELSE {SampleChars[((i - 1) % Len(SampleChars)) + 1]} \cap safe_chars

\* ''.join(random.choice(safe_chars) for _ in range(length)), from position i
\* on: every string the draws can produce
RECURSIVE Join(_, _)
Join(i, length) ==
    IF i > length THEN {<<>>}
    ELSE {<<ch>> \o rest : ch \in random_choice(i, length), rest \in Join(i + 1, length)}

\* Every code one draw of generate_short_code can produce
Draws(length) == Join(1, length)

DefaultLength == 6

\* The short codes callers of the store pass in
SampleCodes == Draws(DefaultLength)

\* "http://a.co" and "HTTPS://b.io/x"
SampleUrls ==
    { <<"h","t","t","p",":","/","/","a",".","c","o">>,
      <<"H","T","T","P","S",":","/","/","b",".","i","o","/","x">> }

-----------------------------------------------------------------------------
(* Validators and generator (app/utils.py) *)

LowerSeq == <<"a","b","c","d","e","f","g","h","i","j","k","l","m",
              "n","o","p","q","r","s","t","u","v","w","x","y","z">>
UpperSeq == <<"A","B","C","D","E","F","G","H","I","J","K","L","M",
              "N","O","P","Q","R","S","T","U","V","W","X","Y","Z">>

\* str.lower of one character
lower(ch) ==
    IF ch \in ascii_uppercase
    THEN LowerSeq[CHOOSE i \in 1..26 : UpperSeq[i] = ch]
    ELSE ch

\* A value a request can carry where a string is expected: a str, or JSON null
Str(s) == [type |-> "str", s |-> s]
Null == [type |-> "null", s |-> EmptyStr]

\* Values that are no str: an int that is not 0, and an empty list
Number == [type |-> "int", s |-> EmptyStr]
EmptyList == [type |-> "list", s |-> EmptyStr]

Whitespace == {" ", "\t", "\n", "\r", "\f"}
ascii_letters == ascii_lowercase \cup ascii_uppercase

\* The regular expression of validate_url, matched as re does: each operator
\* maps the set P of positions a match can have reached to the set of
\* positions it can reach after one more piece of the pattern.

\* a literal, under re.IGNORECASE
Lit(s, P, w) ==
    {p + Len(w) : p \in {q \in P : /\ q + Len(w) - 1 <= Len(s)
                                   /\ \A k \in 1..Len(w) : lower(s[q + k - 1]) = w[k]}}

\* between lo and hi characters of a class
Rep(s, P, class, lo, hi) ==
    UNION {{p + n : n \in {m \in lo..hi : /\ p + m - 1 <= Len(s)
                                          /\ \A k \in 0..(m - 1) : s[p + k] \in class}} :
           p \in P}

\* [A-Z0-9](?:[A-Z0-9-]{0,61}[A-Z0-9])?\.
Label(s, P) ==
    LET first == Rep(s, P, chars, 1, 1)
        more  == Rep(s, Rep(s, first, chars \cup {"-"}, 0, 61), chars, 1, 1)
    IN  Lit(s, first \cup more, <<".">>)

\* (?:label)+ : one label and then any number more
RECURSIVE Labels(_, _, _)
Labels(s, acc, frontier) ==
    LET new == Label(s, frontier) \ acc
    IN  IF new = {} THEN acc ELSE Labels(s, acc \cup new, new)

\* (?:label)+[A-Z]{2,6}\.?
Domain(s, P) ==
    LET tld == Rep(s, Labels(s, {}, P), ascii_letters, 2, 6)
    IN  tld \cup Lit(s, tld, <<".">>)

\* \d{1,3}\.\d{1,3}\.\d{1,3}\.\d{1,3}
Ipv4(s, P) ==
    LET d1 == Lit(s, Rep(s, P, digits, 1, 3), <<".">>)
        d2 == Lit(s, Rep(s, d1, digits, 1, 3), <<".">>)
        d3 == Lit(s, Rep(s, d2, digits, 1, 3), <<".">>)
    IN  Rep(s, d3, digits, 1, 3)

\* url_pattern.match(url): ^https?://(domain|localhost|ip)(?::\d+)?(?:/?|[/?]\S+)$
url_pattern_match(s) ==
    LET http   == Lit(s, {1}, <<"h","t","t","p">>)
        scheme == Lit(s, http \cup Lit(s, http, <<"s">>), <<":","/","/">>)
        host   == Domain(s, scheme)
                  \cup Lit(s, scheme, <<"l","o","c","a","l","h","o","s","t">>)
                  \cup Ipv4(s, scheme)
        port   == host \cup Rep(s, Lit(s, host, <<":">>), digits, 1, Len(s))
        path   == port \cup Lit(s, port, <<"/">>)
                  \cup Rep(s, Rep(s, port, {"/", "?"}, 1, 1),
                           {s[k] : k \in 1..Len(s)} \ Whitespace, 1, Len(s))
    IN  \* $ matches at the end, and before a newline that ends the string
        \/ Len(s) + 1 \in path
        \/ Len(s) >= 1 /\ s[Len(s)] = "\n" /\ Len(s) \in path

\* urlsplit first removes the characters "\t", "\r" and "\n" from the url
IsUrlChar(ch) == ch \notin {"\t", "\r", "\n"}
urlparse_clean(url) == SelectSeq(url, IsUrlChar)

\* urlparse(url).scheme: the characters up to the first ':', lowered, when
\* they are scheme characters and start with a letter
urlparse_scheme(url) ==
    LET s == urlparse_clean(url)
        colons == {k \in 1..Len(s) : s[k] = ":"}
    IN  IF colons = {} THEN EmptyStr
        ELSE LET c == CHOOSE k \in colons : \A j \in colons : k <= j
             IN  IF /\ c > 1
                    /\ s[1] \in ascii_letters
                    /\ \A k \in 1..(c - 1) : s[k] \in chars \cup {"+", "-", "."}
                 THEN [k \in 1..(c - 1) |-> lower(s[k])]
                 ELSE EmptyStr

\* urlparse(url).netloc: what follows "//" after the scheme, up to the first
\* of '/', '?' and '#'
urlparse_netloc(url) ==
    LET s == urlparse_clean(url)
        from == IF urlparse_scheme(s) = EmptyStr THEN 1 ELSE Len(urlparse_scheme(s)) + 2
    IN  IF from + 1 <= Len(s) /\ s[from] = "/" /\ s[from + 1] = "/"
        THEN LET stops == {k \in (from + 2)..Len(s) : s[k] \in {"/", "?", "#"}}
                 last == IF stops = {} THEN Len(s)
                         ELSE (CHOOSE k \in stops : \A j \in stops : k <= j) - 1
             IN  [k \in 1..(last - from - 1) |-> s[from + 1 + k]]
        ELSE EmptyStr

\* validate_url with urlparse as its only check
validate_url_parse_only(url) ==
    IF url.type # "str" \/ url.s = EmptyStr THEN FALSE
    ELSE IF urlparse_scheme(url.s) = EmptyStr \/ urlparse_netloc(url.s) = EmptyStr THEN FALSE
    ELSE TRUE

validate_url(url) ==
    IF url.type # "str" \/ url.s = EmptyStr THEN FALSE
    ELSE IF ~url_pattern_match(url.s) THEN FALSE
    ELSE IF urlparse_scheme(url.s) = EmptyStr \/ urlparse_netloc(url.s) = EmptyStr THEN FALSE
    ELSE IF urlparse_scheme(url.s) \notin {<<"h","t","t","p">>, <<"h","t","t","p","s">>} THEN FALSE
    ELSE TRUE

max_attempts == 100

\* generate_short_code: every outcome of its loop. The loop reaches attempt 0,
\* and attempt a + 1 when the draw of attempt a can be in existing_codes; it
\* returns a drawn code that is not in existing_codes (ok, after a + 1 draws)
\* and raises when `attempt < max_attempts` fails (not ok).
generate_short_code(length, existing_codes) ==
    LET drawn == Draws(length)
        reached == {a \in 0..max_attempts : a = 0 \/ drawn \cap existing_codes # {}}
    IN  {[ok |-> TRUE, code |-> c, draws |-> a + 1] :
            a \in {r \in reached : r < max_attempts}, c \in drawn \ existing_codes}
        \cup {[ok |-> FALSE, code |-> EmptyStr, draws |-> a] :
                 a \in {r \in reached : ~(r < max_attempts)}}

\* Characters outside ASCII that str.isalnum accepts, sampled: U+00E9 (a
\* letter) and U+00B2 (a digit)
UnicodeAlnum == {"U+00E9", "U+00B2"}

\* str.isalnum of one character
isalnum(ch) == ch \in chars \cup UnicodeAlnum

\* is_valid_short_code rejecting codes of 3 characters as too short
is_valid_short_code_min4(code) ==
    IF code.type # "str" \/ code.s = EmptyStr THEN FALSE
    ELSE IF Len(code.s) <= 3 THEN FALSE
    ELSE \A k \in 1..Len(code.s) : isalnum(code.s[k])

is_valid_short_code(code) ==
    IF code.type # "str" \/ code.s = EmptyStr THEN FALSE
    ELSE IF Len(code.s) < 3 THEN FALSE
    ELSE \A k \in 1..Len(code.s) : isalnum(code.s[k])

-----------------------------------------------------------------------------
(* URLStore (app/models.py) *)

StoreOps == {"add_url", "get_url", "increment_clicks", "get_stats",
             "get_existing_codes", "get_total_urls"}

NoCall == [name |-> "none", code |-> EmptyStr, url |-> EmptyStr,
           pc |-> "none", ret |-> NoneVal, tmp |-> 0]

\* A call of a URLStore method, about to enter `with self._lock:`
Call(name, code, url) ==
    [name |-> name,
     code |-> IF name \in {"get_existing_codes", "get_total_urls"} THEN EmptyStr ELSE code,
     url  |-> IF name = "add_url" THEN url ELSE EmptyStr,
     pc   |-> "acquire", ret |-> NoneVal, tmp |-> 0]

\* datetime.now(timezone.utc): the clock has not gone back since it was last read
Clock == now..MaxTime

\* url_data of a new mapping
url_data(original_url, ts) ==
    [url |-> original_url, clicks |-> 0, created_at |-> ts, last_accessed |-> NoneVal]

OpStep(t, pc2, ret2, tmp2) ==
    op' = [op EXCEPT ![t] = [@ EXCEPT !.pc = pc2, !.ret = ret2, !.tmp = tmp2]]

\* Acquire as it would be were the lock missing: no mutual exclusion
AcquireNoExclusion(t) ==
    /\ op[t].pc = "acquire"
    /\ lockOwner' = t
    /\ lockCount' = lockCount + 1
    /\ OpStep(t, "body", op[t].ret, op[t].tmp)
    /\ UNCHANGED <<urls, now, req, resp, started, addedBy, visits, issued, gen, sample, redirects, util>>

\* threading.RLock.acquire, on entering `with self._lock:`
Acquire(t) ==
    /\ op[t].pc = "acquire"
    /\ lockOwner \in {NoThread, t}
    /\ lockOwner' = t
    /\ lockCount' = lockCount + 1
    /\ OpStep(t, "body", op[t].ret, op[t].tmp)
    /\ UNCHANGED <<urls, now, req, resp, started, addedBy, visits, issued, gen, sample, redirects, util>>

\* threading.RLock.release, on leaving `with self._lock:`; the method returns
Release(t) ==
    /\ op[t].pc = "release"
    /\ lockCount' = lockCount - 1
    /\ lockOwner' = IF lockCount' = 0 THEN NoThread ELSE lockOwner
    /\ OpStep(t, "done", op[t].ret, op[t].tmp)
    /\ addedBy' = IF op[t].name = "add_url" /\ op[t].ret = TRUE
                  THEN [addedBy EXCEPT ![op[t].code] = Append(@, op[t].url)]
                  ELSE addedBy
    /\ visits' = IF op[t].name = "increment_clicks" /\ op[t].ret = TRUE
                 THEN [visits EXCEPT ![op[t].code] = @ + 1]
                 ELSE visits
    /\ UNCHANGED <<urls, now, req, resp, started, issued, gen, sample, redirects, util>>

\* add_url without its presence check: every call goes on to insert
add_url_check_upsert(t) ==
    /\ op[t].name = "add_url" /\ op[t].pc = "body"
    /\ OpStep(t, "insert", op[t].ret, 0)
    /\ UNCHANGED <<urls, lockOwner, lockCount, now, req, resp, started, addedBy, visits, issued, gen, sample, redirects, util>>

\* add_url storing url_data before its presence check
add_url_check_writes_first(t) ==
    /\ op[t].name = "add_url" /\ op[t].pc = "body"
    /\ IF op[t].code \in DOMAIN urls
       THEN /\ OpStep(t, "release", FALSE, 0)
            /\ urls' = [urls EXCEPT ![op[t].code] = url_data(op[t].url, now)]
       ELSE /\ OpStep(t, "insert", op[t].ret, 0)
            /\ urls' = urls
    /\ UNCHANGED <<lockOwner, lockCount, now, req, resp, started, addedBy, visits, issued, gen, sample, redirects, util>>

\* add_url taking the lock a second time for its presence check, as it would
\* were the check a call of another method of the store
add_url_check_nested(t) ==
    /\ op[t].name = "add_url" /\ op[t].pc = "body"
    /\ lockOwner' = t
    /\ lockCount' = lockCount + 1
    /\ IF op[t].code \in DOMAIN urls
       THEN OpStep(t, "release", FALSE, 0)
       ELSE OpStep(t, "insert", op[t].ret, 0)
    /\ UNCHANGED <<urls, now, req, resp, started, addedBy, visits, issued, gen, sample, redirects, util>>

\* add_url: `if short_code in self._urls: return False`
add_url_check(t) ==
    /\ op[t].name = "add_url" /\ op[t].pc = "body"
    /\ IF op[t].code \in DOMAIN urls
       THEN OpStep(t, "release", FALSE, 0)
       ELSE OpStep(t, "insert", op[t].ret, 0)
    /\ UNCHANGED <<urls, lockOwner, lockCount, now, req, resp, started, addedBy, visits, issued, gen, sample, redirects, util>>

\* add_url with its arguments swapped in url_data: the code stored as the url
add_url_insert_swapped(t) ==
    /\ op[t].name = "add_url" /\ op[t].pc = "insert"
    /\ \E ts \in Clock :
           /\ now' = ts
           /\ urls' = [c \in DOMAIN urls \cup {op[t].code} |->
                          IF c = op[t].code THEN url_data(op[t].code, ts) ELSE urls[c]]
    /\ OpStep(t, "release", TRUE, 0)
    /\ UNCHANGED <<lockOwner, lockCount, req, resp, started, addedBy, visits, issued, gen, sample, redirects, util>>

\* add_url: `self._urls[short_code] = url_data; return True`
add_url_insert(t) ==
    /\ op[t].name = "add_url" /\ op[t].pc = "insert"
    /\ \E ts \in Clock :
           /\ now' = ts
           /\ urls' = [c \in DOMAIN urls \cup {op[t].code} |->
                          IF c = op[t].code THEN url_data(op[t].url, ts) ELSE urls[c]]
    /\ OpStep(t, "release", TRUE, 0)
    /\ UNCHANGED <<lockOwner, lockCount, req, resp, started, addedBy, visits, issued, gen, sample, redirects, util>>

\* get_url counting the lookup as a click
get_url_counting(t) ==
    /\ op[t].name = "get_url" /\ op[t].pc = "body"
    /\ OpStep(t, "release",
              IF op[t].code \in DOMAIN urls THEN Some(urls[op[t].code].url) ELSE NoneVal, 0)
    /\ urls' = IF op[t].code \in DOMAIN urls
               THEN [urls EXCEPT ![op[t].code].clicks = @ + 1]
               ELSE urls
    /\ UNCHANGED <<lockOwner, lockCount, now, req, resp, started, addedBy, visits, issued, gen, sample, redirects, util>>

\* get_url
get_url(t) ==
    /\ op[t].name = "get_url" /\ op[t].pc = "body"
    /\ OpStep(t, "release",
              IF op[t].code \in DOMAIN urls THEN Some(urls[op[t].code].url) ELSE NoneVal, 0)
    /\ UNCHANGED <<urls, lockOwner, lockCount, now, req, resp, started, addedBy, visits, issued, gen, sample, redirects, util>>

\* increment_clicks: `if short_code not in self._urls: return False`, then
\* the load of `self._urls[short_code]['clicks'] += 1`
increment_clicks_load(t) ==
    /\ op[t].name = "increment_clicks" /\ op[t].pc = "body"
    /\ IF op[t].code \notin DOMAIN urls
       THEN OpStep(t, "release", FALSE, 0)
       ELSE OpStep(t, "store", op[t].ret, urls[op[t].code].clicks)
    /\ UNCHANGED <<urls, lockOwner, lockCount, now, req, resp, started, addedBy, visits, issued, gen, sample, redirects, util>>

\* increment_clicks: the store of `self._urls[short_code]['clicks'] += 1`
increment_clicks_store(t) ==
    /\ op[t].name = "increment_clicks" /\ op[t].pc = "store"
    /\ urls' = [urls EXCEPT ![op[t].code].clicks = op[t].tmp + 1]
    /\ OpStep(t, "touch", op[t].ret, 0)
    /\ UNCHANGED <<lockOwner, lockCount, now, req, resp, started, addedBy, visits, issued, gen, sample, redirects, util>>

\* increment_clicks returning True without the write of last_accessed
increment_clicks_touch_skipped(t) ==
    /\ op[t].name = "increment_clicks" /\ op[t].pc = "touch"
    /\ OpStep(t, "release", TRUE, 0)
    /\ UNCHANGED <<urls, lockOwner, lockCount, now, req, resp, started, addedBy, visits, issued, gen, sample, redirects, util>>

\* increment_clicks writing its timestamp to created_at as well
increment_clicks_touch_created(t) ==
    /\ op[t].name = "increment_clicks" /\ op[t].pc = "touch"
    /\ \E ts \in Clock :
           /\ now' = ts
           /\ urls' = [urls EXCEPT ![op[t].code].last_accessed = Some(ts),
                                   ![op[t].code].created_at = ts]
    /\ OpStep(t, "release", TRUE, 0)
    /\ UNCHANGED <<lockOwner, lockCount, req, resp, started, addedBy, visits, issued, gen, sample, redirects, util>>

\* increment_clicks: `self._urls[short_code]['last_accessed'] = now; return True`
increment_clicks_touch(t) ==
    /\ op[t].name = "increment_clicks" /\ op[t].pc = "touch"
    /\ \E ts \in Clock :
           /\ now' = ts
           /\ urls' = [urls EXCEPT ![op[t].code].last_accessed = Some(ts)]
    /\ OpStep(t, "release", TRUE, 0)
    /\ UNCHANGED <<lockOwner, lockCount, req, resp, started, addedBy, visits, issued, gen, sample, redirects, util>>

\* get_stats
get_stats(t) ==
    /\ op[t].name = "get_stats" /\ op[t].pc = "body"
    /\ OpStep(t, "release",
              IF op[t].code \in DOMAIN urls
              THEN Some([url |-> urls[op[t].code].url,
                         clicks |-> urls[op[t].code].clicks,
                         created_at |-> urls[op[t].code].created_at,
                         last_accessed |-> urls[op[t].code].last_accessed])
              ELSE NoneVal, 0)
    /\ UNCHANGED <<urls, lockOwner, lockCount, now, req, resp, started, addedBy, visits, issued, gen, sample, redirects, util>>

\* get_existing_codes
get_existing_codes(t) ==
    /\ op[t].name = "get_existing_codes" /\ op[t].pc = "body"
    /\ OpStep(t, "release", DOMAIN urls, 0)
    /\ UNCHANGED <<urls, lockOwner, lockCount, now, req, resp, started, addedBy, visits, issued, gen, sample, redirects, util>>

\* get_total_urls
get_total_urls(t) ==
    /\ op[t].name = "get_total_urls" /\ op[t].pc = "body"
    /\ OpStep(t, "release", Cardinality(DOMAIN urls), 0)
    /\ UNCHANGED <<urls, lockOwner, lockCount, now, req, resp, started, addedBy, visits, issued, gen, sample, redirects, util>>

\* The steps of the URLStore methods the request handlers call
StoreStep(t) ==
    \/ Acquire(t)
    \/ add_url_check(t)
    \/ add_url_insert(t)
    \/ get_url(t)
    \/ increment_clicks_load(t)
    \/ increment_clicks_store(t)
    \/ increment_clicks_touch(t)
    \/ get_stats(t)
    \/ get_existing_codes(t)
    \/ Release(t)

-----------------------------------------------------------------------------
(* Request handlers (app/main.py) *)

\* `max_attempts = 5` of shorten_url
shorten_max_attempts == 5

\* request.host_url: "http://h/"
host_url == <<"h","t","t","p",":","/","/","h","/">>

\* "ftp://a.co", "http://", "https://", "HTTP://", "http:///x",
\* "javascript:a", "data:a,b", "file:///a", "a.co", "//a.co" and "http:a.co"
BadUrls ==
    { <<"f","t","p",":","/","/","a",".","c","o">>,
      <<"h","t","t","p",":","/","/">>,
      <<"h","t","t","p","s",":","/","/">>,
      <<"H","T","T","P",":","/","/">>,
      <<"h","t","t","p",":","/","/","/","x">>,
      <<"j","a","v","a","s","c","r","i","p","t",":","a">>,
      <<"d","a","t","a",":","a",",","b">>,
      <<"f","i","l","e",":","/","/","/","a">>,
      <<"a",".","c","o">>,
      <<"/","/","a",".","c","o">>,
      <<"h","t","t","p",":","a",".","c","o">> }

\* The bodies of the POST /api/shorten requests of the model. json: whether
\* request.is_json; body: "unparseable" (get_json raises), "empty" (falsy
\* data), "number" (truthy data that is no container), "no_url" (an object
\* without 'url') or "url" (an object with 'url': url)
ShortenRequests ==
    {[json |-> FALSE, body |-> "url", url |-> Str(u)] : u \in SampleUrls}
    \cup {[json |-> TRUE, body |-> b, url |-> Null] :
             b \in {"unparseable", "empty", "number", "no_url"}}
    \cup {[json |-> TRUE, body |-> "url", url |-> v] :
             v \in {Str(u) : u \in SampleUrls \cup BadUrls \cup {EmptyStr}} \cup {Null, Number}}

\* The codes of the GET /<code> and GET /api/stats/<code> requests of the
\* model: the codes the generator draws, "fg" (too short), "fg-h" (with
\* punctuation) and " " (blank)
RequestCodes == SampleCodes \cup {<<"f","g">>, <<"f","g","-","h">>, <<" ">>}

\* seen and raised are history: the url a 201 had answered for the code when
\* the request began, and whether generate_short_code has raised in a pass of
\* the request
NoReq == [kind |-> "none", pc |-> "idle", url |-> Null, code |-> EmptyStr, attempt |-> 0,
          seen |-> NoneVal, raised |-> FALSE]
NoResp == [status |-> 0, error |-> "", code |-> EmptyStr, url |-> EmptyStr,
           clicks |-> 0, created_at |-> 0]

Error(status, message) == [NoResp EXCEPT !.status = status, !.error = message]

Idle(t) == req[t].kind = "none" /\ op[t].pc \in {"none", "done"}

\* The url the first 201 for the code answered, if any
IssuedFor(code) ==
    LET at == {i \in 1..Len(issued) : issued[i][1] = code}
    IN  IF at = {} THEN NoneVal
        ELSE Some(issued[CHOOSE i \in at : \A j \in at : i <= j][2])

\* str.strip() == ''
IsBlank(code) == \A k \in 1..Len(code) : code[k] \in Whitespace

\* The request ends with response r
Respond(t, r) ==
    /\ resp' = [resp EXCEPT ![t] = r]
    /\ req' = [req EXCEPT ![t] = NoReq]

\* shorten_url with a loop that runs one pass too many
shorten_url_attempt_one_more(t, r, attempt) ==
    IF attempt <= shorten_max_attempts
    THEN /\ req' = [req EXCEPT ![t] = [r EXCEPT !.pc = "snapshot", !.attempt = attempt]]
         /\ op' = [op EXCEPT ![t] = Call("get_existing_codes", EmptyStr, EmptyStr)]
         /\ resp' = [resp EXCEPT ![t] = NoResp]
    ELSE /\ Respond(t, Error(500, "Unable to generate short code, please try again"))
         /\ op' = op

\* shorten_url, one pass of `for attempt in range(max_attempts)` from its
\* top: the call of get_existing_codes, or the 500 after the loop
shorten_url_attempt(t, r, attempt) ==
    IF attempt < shorten_max_attempts
    THEN /\ req' = [req EXCEPT ![t] = [r EXCEPT !.pc = "snapshot", !.attempt = attempt]]
         /\ op' = [op EXCEPT ![t] = Call("get_existing_codes", EmptyStr, EmptyStr)]
         /\ resp' = [resp EXCEPT ![t] = NoResp]
    ELSE /\ Respond(t, Error(500, "Unable to generate short code, please try again"))
         /\ op' = op

\* shorten_url up to `original_url = data['url']`: the checks of the request
shorten_url_begin(t) ==
    /\ Idle(t)
    /\ started < MaxCalls
    /\ started' = started + 1
    /\ \E r \in ShortenRequests :
           IF ~r.json
           THEN Respond(t, Error(400, "Content-Type must be application/json")) /\ op' = op
           ELSE IF r.body = "unparseable"
           THEN Respond(t, Error(400, "Invalid JSON format")) /\ op' = op
           ELSE IF r.body = "empty"
           THEN Respond(t, Error(400, "Request body is required")) /\ op' = op
           ELSE IF r.body = "number"   \* `'url' not in data` raises TypeError
           THEN Respond(t, Error(500, "Internal server error")) /\ op' = op
           ELSE IF r.body = "no_url"
           THEN Respond(t, Error(400, "Missing 'url' field in request body")) /\ op' = op
           ELSE /\ req' = [req EXCEPT ![t] = [NoReq EXCEPT !.kind = "shorten_body",
                                                           !.pc = "validate", !.url = r.url]]
                /\ resp' = [resp EXCEPT ![t] = NoResp]
                /\ op' = op
    /\ UNCHANGED <<urls, lockOwner, lockCount, now, addedBy, visits, issued, gen, sample, redirects, util>>

\* shorten_url without its `if not validate_url(original_url)`
shorten_url_validate_skipped(t) ==
    /\ req[t].kind = "shorten_body" /\ req[t].pc = "validate"
    /\ shorten_url_attempt(t, [NoReq EXCEPT !.kind = "shorten", !.url = req[t].url], 0)
    /\ UNCHANGED <<urls, lockOwner, lockCount, now, started, addedBy, visits, issued, gen, sample, redirects, util>>

\* shorten_url: `if not validate_url(original_url)`, then the first pass of
\* the loop
shorten_url_validate(t) ==
    /\ req[t].kind = "shorten_body" /\ req[t].pc = "validate"
    /\ IF ~validate_url(req[t].url)
       THEN Respond(t, Error(400, "Invalid URL format")) /\ op' = op
       ELSE shorten_url_attempt(t, [NoReq EXCEPT !.kind = "shorten", !.url = req[t].url], 0)
    /\ UNCHANGED <<urls, lockOwner, lockCount, now, started, addedBy, visits, issued, gen, sample, redirects, util>>

\* shorten_url calling generate_short_code() without existing_codes
shorten_url_generate_no_snapshot(t) ==
    /\ req[t].kind = "shorten" /\ req[t].pc = "snapshot" /\ op[t].pc = "done"
    /\ \E g \in {[ok |-> x.ok, code |-> x.code] :
                    x \in generate_short_code(DefaultLength, {})} :
           IF g.ok
           THEN /\ req' = [req EXCEPT ![t] = [@ EXCEPT !.pc = "add", !.code = g.code]]
                /\ op' = [op EXCEPT ![t] = Call("add_url", g.code, req[t].url.s)]
                /\ resp' = resp
           ELSE shorten_url_attempt(t, [req[t] EXCEPT !.raised = TRUE], req[t].attempt + 1)
    /\ UNCHANGED <<urls, lockOwner, lockCount, now, started, addedBy, visits, issued, gen, sample, redirects, util>>

\* shorten_url: generate_short_code(existing_codes=existing_codes), then the
\* call of add_url; `continue` when the generator raises
shorten_url_generate(t) ==
    /\ req[t].kind = "shorten" /\ req[t].pc = "snapshot" /\ op[t].pc = "done"
    /\ \E g \in {[ok |-> x.ok, code |-> x.code] :
                    x \in generate_short_code(DefaultLength, op[t].ret)} :
           IF g.ok
           THEN /\ req' = [req EXCEPT ![t] = [@ EXCEPT !.pc = "add", !.code = g.code]]
                /\ op' = [op EXCEPT ![t] = Call("add_url", g.code, req[t].url.s)]
                /\ resp' = resp
           ELSE shorten_url_attempt(t, [req[t] EXCEPT !.raised = TRUE], req[t].attempt + 1)
    /\ UNCHANGED <<urls, lockOwner, lockCount, now, started, addedBy, visits, issued, gen, sample, redirects, util>>

\* shorten_url answering 201 whatever add_url returned
shorten_url_added_unchecked(t) ==
    /\ req[t].kind = "shorten" /\ req[t].pc = "add" /\ op[t].pc = "done"
    /\ Respond(t, [NoResp EXCEPT !.status = 201, !.code = req[t].code,
                                 !.url = host_url \o req[t].code])
    /\ issued' = Append(issued, <<req[t].code, req[t].url.s>>)
    /\ op' = op
    /\ UNCHANGED <<urls, lockOwner, lockCount, now, started, addedBy, visits, gen, sample, redirects, util>>

\* shorten_url: after add_url, the 201 or the next pass of the loop
shorten_url_added(t) ==
    /\ req[t].kind = "shorten" /\ req[t].pc = "add" /\ op[t].pc = "done"
    /\ IF op[t].ret = TRUE
       THEN /\ Respond(t, [NoResp EXCEPT !.status = 201, !.code = req[t].code,
                                         !.url = host_url \o req[t].code])
            /\ issued' = Append(issued, <<req[t].code, req[t].url.s>>)
            /\ op' = op
       ELSE /\ shorten_url_attempt(t, req[t], req[t].attempt + 1)
            /\ issued' = issued
    /\ UNCHANGED <<urls, lockOwner, lockCount, now, started, addedBy, visits, gen, sample, redirects, util>>

\* redirect_url up to the call of get_url
redirect_url_begin(t) ==
    /\ Idle(t)
    /\ started < MaxCalls
    /\ started' = started + 1
    /\ \E short_code \in RequestCodes :
           IF short_code = EmptyStr \/ IsBlank(short_code)
           THEN Respond(t, Error(404, "Invalid short code format")) /\ op' = op
           ELSE /\ req' = [req EXCEPT ![t] = [NoReq EXCEPT !.kind = "redirect", !.pc = "lookup",
                                                           !.code = short_code,
                                                           !.seen = IssuedFor(short_code)]]
                /\ op' = [op EXCEPT ![t] = Call("get_url", short_code, EmptyStr)]
                /\ resp' = [resp EXCEPT ![t] = NoResp]
    /\ UNCHANGED <<urls, lockOwner, lockCount, now, addedBy, visits, issued, gen, sample, redirects, util>>

\* redirect_url going on to its redirect without the call of increment_clicks
redirect_url_looked_up_uncounted(t) ==
    /\ req[t].kind = "redirect" /\ req[t].pc = "lookup" /\ op[t].pc = "done"
    /\ IF op[t].ret = NoneVal \/ op[t].ret = Some(EmptyStr)
       THEN IF ~is_valid_short_code(Str(req[t].code))
            THEN Respond(t, Error(404, "Invalid short code format"))
            ELSE Respond(t, Error(404, "Short code not found"))
       ELSE /\ req' = [req EXCEPT ![t] = [@ EXCEPT !.pc = "count", !.url = Str(op[t].ret.val)]]
            /\ resp' = resp
    /\ UNCHANGED <<urls, lockOwner, lockCount, now, op, started, addedBy, visits, issued, gen, sample, redirects, util>>

\* redirect_url: after get_url, the 404 or the call of increment_clicks
redirect_url_looked_up(t) ==
    /\ req[t].kind = "redirect" /\ req[t].pc = "lookup" /\ op[t].pc = "done"
    /\ IF op[t].ret = NoneVal \/ op[t].ret = Some(EmptyStr)   \* `if not original_url`
       THEN /\ IF ~is_valid_short_code(Str(req[t].code))
               THEN Respond(t, Error(404, "Invalid short code format"))
               ELSE Respond(t, Error(404, "Short code not found"))
            /\ op' = op
       ELSE /\ req' = [req EXCEPT ![t] = [@ EXCEPT !.pc = "count", !.url = Str(op[t].ret.val)]]
            /\ op' = [op EXCEPT ![t] = Call("increment_clicks", req[t].code, EmptyStr)]
            /\ resp' = resp
    /\ UNCHANGED <<urls, lockOwner, lockCount, now, started, addedBy, visits, issued, gen, sample, redirects, util>>

\* redirect_url failing the request when increment_clicks returned False
redirect_url_counted_failing(t) ==
    /\ req[t].kind = "redirect" /\ req[t].pc = "count" /\ op[t].pc = "done"
    /\ IF op[t].ret = TRUE
       THEN /\ Respond(t, [NoResp EXCEPT !.status = 302, !.code = req[t].code,
                                         !.url = req[t].url.s])
            /\ redirects' = [redirects EXCEPT ![req[t].code] = @ + 1]
       ELSE /\ Respond(t, Error(500, "Internal server error"))
            /\ redirects' = redirects
    /\ UNCHANGED <<urls, lockOwner, lockCount, now, op, started, addedBy, visits, issued, gen, sample, util>>

\* redirect_url: after increment_clicks, the redirect, whatever it returned
redirect_url_counted(t) ==
    /\ req[t].kind = "redirect" /\ req[t].pc = "count" /\ op[t].pc = "done"
    /\ Respond(t, [NoResp EXCEPT !.status = 302, !.code = req[t].code, !.url = req[t].url.s])
    /\ redirects' = [redirects EXCEPT ![req[t].code] = @ + 1]
    /\ UNCHANGED <<urls, lockOwner, lockCount, now, op, started, addedBy, visits, issued, gen, sample, util>>

\* get_stats of main.py up to the call of url_store.get_stats
api_stats_begin(t) ==
    /\ Idle(t)
    /\ started < MaxCalls
    /\ started' = started + 1
    /\ \E short_code \in RequestCodes :
           IF short_code = EmptyStr \/ IsBlank(short_code)
           THEN Respond(t, Error(404, "Invalid short code format")) /\ op' = op
           ELSE /\ req' = [req EXCEPT ![t] = [NoReq EXCEPT !.kind = "stats", !.pc = "lookup",
                                                           !.code = short_code]]
                /\ op' = [op EXCEPT ![t] = Call("get_stats", short_code, EmptyStr)]
                /\ resp' = [resp EXCEPT ![t] = NoResp]
    /\ UNCHANGED <<urls, lockOwner, lockCount, now, addedBy, visits, issued, gen, sample, redirects, util>>

\* get_stats of main.py answering every miss with 'Short code not found'
api_stats_respond_not_found(t) ==
    /\ req[t].kind = "stats" /\ req[t].pc = "lookup" /\ op[t].pc = "done"
    /\ IF op[t].ret = NoneVal
       THEN Respond(t, Error(404, "Short code not found"))
       ELSE Respond(t, [NoResp EXCEPT !.status = 200, !.code = req[t].code,
                                      !.url = op[t].ret.val.url,
                                      !.clicks = op[t].ret.val.clicks,
                                      !.created_at = op[t].ret.val.created_at])
    /\ UNCHANGED <<urls, lockOwner, lockCount, now, op, started, addedBy, visits, issued, gen, sample, redirects, util>>

\* get_stats of main.py: after url_store.get_stats, the 404 or the 200
api_stats_respond(t) ==
    /\ req[t].kind = "stats" /\ req[t].pc = "lookup" /\ op[t].pc = "done"
    /\ IF op[t].ret = NoneVal
       THEN IF ~is_valid_short_code(Str(req[t].code))
            THEN Respond(t, Error(404, "Invalid short code format"))
            ELSE Respond(t, Error(404, "Short code not found"))
       ELSE Respond(t, [NoResp EXCEPT !.status = 200, !.code = req[t].code,
                                      !.url = op[t].ret.val.url,
                                      !.clicks = op[t].ret.val.clicks,
                                      !.created_at = op[t].ret.val.created_at])
    /\ UNCHANGED <<urls, lockOwner, lockCount, now, op, started, addedBy, visits, issued, gen, sample, redirects, util>>

NoUtil == [fn |-> "none", pc |-> "none", arg |-> Null, ret |-> FALSE]

NoGen == [pc |-> "idle", length |-> 0, existing_codes |-> {}, attempt |-> 0,
          code |-> EmptyStr, draws |-> 0, collisions |-> 0]

\* URLStore.__init__ at import, no request in progress, and the histories empty
Init ==
    /\ sample = FirstChars(NumCodes)
    /\ urls = <<>>
    /\ lockOwner = NoThread
    /\ lockCount = 0
    /\ now = 0
    /\ op = [t \in Threads |-> NoCall]
    /\ req = [t \in Threads |-> NoReq]
    /\ resp = [t \in Threads |-> NoResp]
    /\ started = 0
    /\ addedBy = [c \in SampleCodes |-> <<>>]
    /\ visits = [c \in SampleCodes |-> 0]
    /\ issued = <<>>
    /\ util = NoUtil
    /\ redirects = [c \in SampleCodes |-> 0]
    /\ gen = NoGen

\* The service: threads handling requests
Next ==
    \/ \E t \in Threads : shorten_url_begin(t)
    \/ \E t \in Threads : shorten_url_validate(t)
    \/ \E t \in Threads : shorten_url_generate(t)
    \/ \E t \in Threads : shorten_url_added(t)
    \/ \E t \in Threads : redirect_url_begin(t)
    \/ \E t \in Threads : redirect_url_looked_up(t)
    \/ \E t \in Threads : redirect_url_counted(t)
    \/ \E t \in Threads : api_stats_begin(t)
    \/ \E t \in Threads : api_stats_respond(t)
    \/ \E t \in Threads : StoreStep(t)

Spec == Init /\ [][Next]_vars

\* The steps of thread t that finish what it has begun
ThreadStep(t) ==
    \/ shorten_url_validate(t)
    \/ shorten_url_generate(t)
    \/ shorten_url_added(t)
    \/ redirect_url_looked_up(t)
    \/ redirect_url_counted(t)
    \/ api_stats_respond(t)
    \/ StoreStep(t)

-----------------------------------------------------------------------------
(* generate_short_code (app/utils.py), step by step *)

\* The lengths asked of the generator in the model
GenLengths == {DefaultLength, 3}

\* A call generate_short_code(length, existing_codes), at `attempt = 0`
GenInit ==
    /\ sample = FirstChars(NumCodes)
    /\ urls = <<>>
    /\ lockOwner = NoThread
    /\ lockCount = 0
    /\ now = 0
    /\ op = [t \in Threads |-> NoCall]
    /\ req = [t \in Threads |-> NoReq]
    /\ resp = [t \in Threads |-> NoResp]
    /\ started = 0
    /\ addedBy = [c \in SampleCodes |-> <<>>]
    /\ visits = [c \in SampleCodes |-> 0]
    /\ issued = <<>>
    /\ util = NoUtil
    /\ redirects = [c \in SampleCodes |-> 0]
    /\ \E length \in GenLengths :
           \E existing_codes \in SUBSET (Draws(length) \cup {<<"f","g">>}) :
               gen = [NoGen EXCEPT !.pc = "loop", !.length = length,
                                   !.existing_codes = existing_codes]

\* `while attempt < max_attempts:` with the draw that opens its body, or the
\* raise after the loop
generate_short_code_draw ==
    /\ gen.pc = "loop"
    /\ IF gen.attempt < max_attempts
       THEN \E code \in Draws(gen.length) :
                gen' = [gen EXCEPT !.pc = "drawn", !.code = code, !.draws = @ + 1]
       ELSE gen' = [gen EXCEPT !.pc = "raised"]
    /\ UNCHANGED <<urls, lockOwner, lockCount, now, op, req, resp, started, addedBy, visits, issued, sample, redirects, util>>

\* The loop body without its membership test: the drawn code is returned
generate_short_code_check_unchecked ==
    /\ gen.pc = "drawn"
    /\ gen' = [gen EXCEPT !.pc = "returned"]
    /\ UNCHANGED <<urls, lockOwner, lockCount, now, op, req, resp, started, addedBy, visits, issued, sample, redirects, util>>

\* `if code not in existing_codes: return code`, else `attempt += 1`
generate_short_code_check ==
    /\ gen.pc = "drawn"
    /\ IF gen.code \notin gen.existing_codes
       THEN gen' = [gen EXCEPT !.pc = "returned"]
       ELSE gen' = [gen EXCEPT !.pc = "loop", !.attempt = @ + 1, !.collisions = @ + 1]
    /\ UNCHANGED <<urls, lockOwner, lockCount, now, op, req, resp, started, addedBy, visits, issued, sample, redirects, util>>

GenNext ==
    \/ generate_short_code_draw
    \/ generate_short_code_check

GenSpec == GenInit /\ [][GenNext]_vars

-----------------------------------------------------------------------------
(* Threads calling the store directly *)

\* A thread calls a URLStore method
CallStore(t) ==
    /\ Idle(t)
    /\ started < MaxCalls
    /\ started' = started + 1
    /\ \E name \in StoreOps, code \in SampleCodes, url \in SampleUrls :
           op' = [op EXCEPT ![t] = Call(name, code, url)]
    /\ UNCHANGED <<urls, lockOwner, lockCount, now, req, resp, addedBy, visits, issued, gen, sample, redirects, util>>

StoreNext ==
    \/ \E t \in Threads : CallStore(t)
    \/ \E t \in Threads : StoreStep(t)
    \/ \E t \in Threads : get_total_urls(t)

StoreSpec == Init /\ [][StoreNext]_vars

\* The store with every thread scheduled fairly: a thread that can go on
\* with its call does so
FairStoreSpec ==
    /\ StoreSpec
    /\ \A t \in Threads : WF_vars(StoreStep(t) \/ get_total_urls(t))

-----------------------------------------------------------------------------
(* Direct calls of the validators of app/utils.py *)

\* The longest of the strings of CodeChars passed to is_valid_short_code
MaxCodeLen == 4

\* Characters of the arguments: letters, a digit, punctuation, whitespace and
\* an alphanumeric character outside ASCII
CodeChars == {"a", "Z", "7", "-", "_", " ", "U+00E9"}

\* Every string of CodeChars of up to MaxCodeLen characters
CodeStrings == UNION {[1..n -> CodeChars] : n \in 0..MaxCodeLen}

\* One code of the default length for each character of safe_chars
OneCharCodes == {[k \in 1..DefaultLength |-> ch] : ch \in safe_chars}

\* The arguments of the calls of is_valid_short_code in the model
CodeArgs ==
    {Str(s) : s \in CodeStrings \cup OneCharCodes \cup SampleCodes}
    \cup {Null, Number, EmptyList}

\* A call is_valid_short_code(code)
UtilInit ==
    /\ sample = FirstChars(NumCodes)
    /\ urls = <<>>
    /\ lockOwner = NoThread
    /\ lockCount = 0
    /\ now = 0
    /\ op = [t \in Threads |-> NoCall]
    /\ req = [t \in Threads |-> NoReq]
    /\ resp = [t \in Threads |-> NoResp]
    /\ started = 0
    /\ addedBy = [c \in SampleCodes |-> <<>>]
    /\ visits = [c \in SampleCodes |-> 0]
    /\ issued = <<>>
    /\ redirects = [c \in SampleCodes |-> 0]
    /\ gen = NoGen
    /\ \E code \in CodeArgs :
           util = [fn |-> "is_valid_short_code", pc |-> "called", arg |-> code, ret |-> FALSE]

\* is_valid_short_code runs and returns
is_valid_short_code_call ==
    /\ util.fn = "is_valid_short_code" /\ util.pc = "called"
    /\ util' = [util EXCEPT !.pc = "returned", !.ret = is_valid_short_code(util.arg)]
    /\ UNCHANGED <<urls, lockOwner, lockCount, now, op, req, resp, started, addedBy, visits,
                   issued, gen, sample, redirects>>

UtilNext == is_valid_short_code_call

UtilSpec == UtilInit /\ [][UtilNext]_vars

-----------------------------------------------------------------------------
(* The service with the store emptied under it *)

\* `url_store._urls.clear()` of the test fixture, the one statement of the
\* repository that removes records. Here it may run between two calls of the
\* store while requests are in progress
fixture_clear ==
    /\ lockOwner = NoThread
    /\ DOMAIN urls # {}
    /\ started < MaxCalls
    /\ started' = started + 1
    /\ urls' = <<>>
    /\ UNCHANGED <<lockOwner, lockCount, now, op, req, resp, addedBy, visits, issued, gen, sample, redirects, util>>

ResetNext ==
    \/ Next
    \/ fixture_clear

ResetSpec == Init /\ [][ResetNext]_vars

-----------------------------------------------------------------------------
(* The service with its shorten requests one at a time *)

\* No thread but t is inside shorten_url
OneAtATime(t) ==
    \A u \in Threads \ {t} : req[u].kind \notin {"shorten_body", "shorten"}

\* The service: a shorten request begins when no other is running; redirect
\* and stats requests run at any time
SeqNext ==
    \/ \E t \in Threads : OneAtATime(t) /\ shorten_url_begin(t)
    \/ \E t \in Threads : shorten_url_validate(t)
    \/ \E t \in Threads : shorten_url_generate(t)
    \/ \E t \in Threads : shorten_url_added(t)
    \/ \E t \in Threads : redirect_url_begin(t)
    \/ \E t \in Threads : redirect_url_looked_up(t)
    \/ \E t \in Threads : redirect_url_counted(t)
    \/ \E t \in Threads : api_stats_begin(t)
    \/ \E t \in Threads : api_stats_respond(t)
    \/ \E t \in Threads : StoreStep(t)

SeqSpec == Init /\ [][SeqNext]_vars

-----------------------------------------------------------------------------
(* Concurrent shorten requests for distinct urls, on an empty store *)

\* The requests of test_concurrent_url_shortening
NumRequests == 5

Shorteners == 1..NumRequests

\* The five urls of test_urls, shortened: "http://a.co/1" ... "http://a.co/5"
test_urls == [i \in Shorteners |->
                 <<"h","t","t","p",":","/","/","a",".","c","o","/">>
                 \o << <<"1","2","3","4","5","6","7","8","9">>[i] >>]

\* Every request has passed the checks of its body and of its url, and is at
\* the top of the first pass of its loop; the store is empty
ConcInit ==
    /\ sample = FirstChars(NumRequests)
    /\ urls = <<>>
    /\ lockOwner = NoThread
    /\ lockCount = 0
    /\ now = MaxTime
    /\ op = [t \in Shorteners |-> Call("get_existing_codes", EmptyStr, EmptyStr)]
    /\ req = [t \in Shorteners |->
                 [NoReq EXCEPT !.kind = "shorten", !.pc = "snapshot", !.url = Str(test_urls[t])]]
    /\ resp = [t \in Shorteners |-> NoResp]
    /\ started = NumRequests
    /\ addedBy = [c \in SampleCodes |-> <<>>]
    /\ visits = [c \in SampleCodes |-> 0]
    /\ issued = <<>>
    /\ util = NoUtil
    /\ redirects = [c \in SampleCodes |-> 0]
    /\ gen = NoGen
    /\ \A t \in Shorteners : validate_url(Str(test_urls[t]))

\* The codes that are stored or that a request is about to add
InPlay ==
    DOMAIN urls \cup {req[u].code : u \in {v \in DOMAIN req : req[v].pc = "add"}}

CodeRank(c) == CHOOSE k \in 1..Len(SampleChars) : SampleChars[k] = c[Len(c)]

\* The program compares codes for equality only, so of the codes that no
\* request has drawn the draws of the model take the first
FirstFresh(t) ==
    req'[t].pc = "add"
        => \/ req'[t].code \in InPlay
           \/ \A d \in SampleCodes \ InPlay : CodeRank(req'[t].code) <= CodeRank(d)

\* Request t has come back from a call of the store and has not yet taken the
\* step of shorten_url that follows it
BackInHandler(t) == req[t].kind = "shorten" /\ op[t].pc = "done"

\* Request t has stored its url, or has answered
Settled(t) ==
    \/ req[t].kind = "none"
    \/ \E c \in DOMAIN urls : urls[c].url = test_urls[t]

\* The requests differ in their urls only, which the program stores and never
\* compares: of the runs that differ by renaming the requests the model keeps
\* the one in which the inserts succeed in the order of the requests' numbers
InOrder(t) ==
    (op[t].name = "add_url" /\ op[t].code \notin DOMAIN urls)
        => \A u \in Shorteners : u < t => Settled(u)

\* A step of request t. While a thread is inside a method of the store the
\* others wait: those that call the store wait for its lock, and the steps of
\* shorten_url between two calls read and write nothing the store's methods
\* do, so a request back from a call takes its next step before the others move
ConcStep(t) ==
    /\ lockOwner \in {NoThread, t}
    /\ \A u \in Shorteners \ {t} : ~BackInHandler(u)
    /\ \/ shorten_url_generate(t) /\ FirstFresh(t)
       \/ shorten_url_added(t)
       \/ Acquire(t) /\ InOrder(t)
       \/ get_existing_codes(t)
       \/ add_url_check(t)
       \/ add_url_insert(t)
       \/ Release(t)

ConcNext == \E t \in Shorteners : ConcStep(t)

ConcSpec == ConcInit /\ [][ConcNext]_vars

-----------------------------------------------------------------------------
(* Claims about the store *)

\* Thread t takes a step of the call it is in
Stepped(t) == op'[t].pc # op[t].pc

Returned(t, name) == op[t].name = name /\ op[t].pc = "done"

\* C1: add_url is atomic with its presence check. Of the add_url calls on one
\* code, at most one returns True; once any of them has returned, exactly one
\* has returned True, and the record under the code holds that call's url.
C1_InsertAtomic ==
    \A c \in SampleCodes :
        /\ Len(addedBy[c]) <= 1
        /\ (Len(addedBy[c]) = 1 \/ \E t \in Threads : Returned(t, "add_url") /\ op[t].code = c)
               => /\ Len(addedBy[c]) = 1
                  /\ c \in DOMAIN urls
                  /\ urls[c].url = addedBy[c][1]

\* Two add_url calls on one code with different urls have both returned, one
\* True and one False
C1_Witness ==
    \E t1, t2 \in Threads :
        /\ Returned(t1, "add_url") /\ Returned(t2, "add_url")
        /\ op[t1].code = op[t2].code /\ op[t1].url # op[t2].url
        /\ op[t1].ret = TRUE /\ op[t2].ret = FALSE
        /\ urls[op[t1].code].url = op[t1].url

\* C2: no step removes a stored code, and no step changes the url or the
\* created_at of a stored record; the url is the one its insert wrote.
C2_NeverOverwritten ==
    /\ [](\A c \in DOMAIN urls : Len(addedBy[c]) >= 1 => urls[c].url = addedBy[c][1])
    /\ [][/\ DOMAIN urls \subseteq DOMAIN urls'
          /\ Cardinality(DOMAIN urls') >= Cardinality(DOMAIN urls)
          /\ \A c \in DOMAIN urls :
                 /\ urls'[c].url = urls[c].url
                 /\ urls'[c].created_at = urls[c].created_at]_vars

\* A record that was visited after the clock moved on, and a second add_url on
\* its code that has returned
C2_Witness ==
    \E c \in DOMAIN urls :
        /\ urls[c].clicks >= 1
        /\ urls[c].last_accessed.some
        /\ urls[c].created_at < urls[c].last_accessed.val
        /\ \E t \in Threads : Returned(t, "add_url") /\ op[t].code = c /\ op[t].ret = FALSE

\* C3: add_url on a code that is present returns False, and neither its
\* presence check nor its return changes any record of the store.
C3_CollisionNoMutation ==
    [][\A t \in Threads :
          (/\ Stepped(t)
           /\ op[t].name = "add_url"
           /\ op[t].code \in DOMAIN urls
           /\ \/ op[t].pc = "body"
              \/ op[t].pc = "release" /\ op[t].ret = FALSE)
          => /\ urls' = urls
             /\ op[t].pc = "body" => op'[t].pc = "release" /\ op'[t].ret = FALSE]_vars

\* add_url has returned False on a code whose record was visited and holds
\* another url
C3_Witness ==
    \E t \in Threads :
        /\ Returned(t, "add_url") /\ op[t].ret = FALSE
        /\ urls[op[t].code].url # op[t].url
        /\ urls[op[t].code].clicks >= 1
        /\ urls[op[t].code].last_accessed # NoneVal

\* C5: whenever the lock is free, so whenever get_stats can read it, the
\* clicks of every stored code equal the number of increment_clicks calls on
\* it that returned True; get_stats returns that number; and no step lowers
\* the clicks of a code.
C5_ClicksCountVisits ==
    /\ [](lockOwner = NoThread => \A c \in DOMAIN urls : urls[c].clicks = visits[c])
    /\ [][/\ \A c \in DOMAIN urls : urls'[c].clicks >= urls[c].clicks
          /\ \A t \in Threads :
                 (Stepped(t) /\ op[t].name = "get_stats" /\ op[t].pc = "body"
                      /\ op[t].code \in DOMAIN urls)
                 => op'[t].ret.val.clicks = visits[op[t].code]]_vars

\* Two threads have both returned True from increment_clicks on one code
C5_Witness ==
    \E t1, t2 \in Threads :
        /\ t1 # t2
        /\ Returned(t1, "increment_clicks") /\ Returned(t2, "increment_clicks")
        /\ op[t1].code = op[t2].code
        /\ op[t1].ret = TRUE /\ op[t2].ret = TRUE
        /\ urls[op[t1].code].clicks = 2

\* C6: once add_url(c, u) has returned True, every get_url(c) that runs
\* returns u, every get_stats(c) returns a record with url u, and every
\* increment_clicks(c) returns True.
C6_VisibleAfterInsert ==
    [][\A t \in Threads :
          (Stepped(t) /\ op[t].code \in SampleCodes /\ Len(addedBy[op[t].code]) >= 1)
          => /\ (op[t].name = "get_url" /\ op[t].pc = "body")
                    => op'[t].ret = Some(addedBy[op[t].code][1])
             /\ (op[t].name = "get_stats" /\ op[t].pc = "body")
                    => /\ op'[t].ret.some
                       /\ op'[t].ret.val.url = addedBy[op[t].code][1]
             /\ (op[t].name = "increment_clicks" /\ op'[t].pc = "release")
                    => op'[t].ret = TRUE]_vars

\* A thread's add_url(c, u) returned True and the same thread's next call,
\* get_url(c), has returned u
C6_Witness ==
    \E t \in Threads :
        /\ Returned(t, "get_url")
        /\ op[t].code \in SampleCodes
        /\ Len(addedBy[op[t].code]) = 1
        /\ op[t].ret = Some(addedBy[op[t].code][1])
        /\ started = 2

ReadOps == {"get_url", "get_stats", "get_existing_codes", "get_total_urls"}

\* C7: no step of get_url, get_stats, get_existing_codes or get_total_urls,
\* on a present or an absent code, changes the mapping: every record's clicks
\* and last_accessed stay as they were.
C7_LookupsReadOnly ==
    [][\A t \in Threads :
          (Stepped(t) /\ op[t].name \in ReadOps /\ op[t].pc # "done")
          => /\ urls' = urls
             /\ \A c \in DOMAIN urls :
                    /\ urls'[c].clicks = urls[c].clicks
                    /\ urls'[c].last_accessed = urls[c].last_accessed]_vars

\* get_url has returned the url of a record that was visited before
C7_Witness ==
    \E t \in Threads :
        /\ Returned(t, "get_url")
        /\ op[t].code \in DOMAIN urls
        /\ op[t].ret = Some(urls[op[t].code].url)
        /\ urls[op[t].code].clicks = 1
        /\ visits[op[t].code] = 1

-----------------------------------------------------------------------------
(* Claims about the request handlers *)

\* C4: the codes answered 201 by shorten requests are pairwise distinct.
C4_IssuedCodesDistinct ==
    \A i, j \in 1..Len(issued) : i # j => issued[i][1] # issued[j][1]

\* Two shorten requests have been answered 201, and both threads hold a 201
C4_Witness ==
    /\ Len(issued) = 2
    /\ \A t \in Threads : resp[t].status = 201
    /\ resp[1].code # resp[2].code

\* C8: a redirect request on a code that a 201 had answered for url u when the
\* request began ends in a 302 to exactly u, whatever requests ran in between;
\* and every url a 201 was answered for is accepted by validate_url.
C8_ShortenThenRedirect ==
    /\ [](\A i \in 1..Len(issued) : validate_url(Str(issued[i][2])))
    /\ [][\A t \in Threads :
             (/\ req[t].kind = "redirect"
              /\ req'[t].kind = "none"
              /\ req[t].seen # NoneVal)
             => /\ resp'[t].status = 302
                /\ resp'[t].code = req[t].code
                /\ resp'[t].url = req[t].seen.val]_vars

\* A redirect on an issued code has been answered 302 after another shorten
\* request was answered 201 for another url
C8_Witness ==
    \E t \in Threads :
        /\ resp[t].status = 302
        /\ Len(issued) = 2
        /\ issued[1][1] = resp[t].code
        /\ issued[1][2] = resp[t].url
        /\ issued[2][2] # resp[t].url

UnableToGenerate == Error(500, "Unable to generate short code, please try again")

\* The pass of the loop that thread t is in has failed: the next pass begins
\* with a fresh snapshot, or, after the 5th, the request ends with the 500
C9_PassFailed(t) ==
    IF req[t].attempt + 1 < 5
    THEN /\ req'[t] = [req[t] EXCEPT !.pc = "snapshot", !.attempt = req[t].attempt + 1,
                                     !.raised = req'[t].raised]
         /\ op'[t].name = "get_existing_codes" /\ op'[t].pc = "acquire"
    ELSE /\ req'[t].kind = "none"
         /\ resp'[t] = UnableToGenerate

\* How far the shorten request of thread t has come: the passes it has made,
\* and within its pass the steps of its get_existing_codes and add_url calls
C9_Progress(t) ==
    req[t].attempt * 10
    + (IF req[t].pc = "add" THEN 5 ELSE 0)
    + (CASE op[t].pc = "acquire" -> 0
         [] op[t].pc = "body"    -> 1
         [] op[t].pc = "insert"  -> 2
         [] op[t].pc = "release" -> 3
         [] OTHER                -> 4)

\* C9: a shorten request for a valid url makes at most 5 passes of its loop
\* (one snapshot, one generate, at most one add_url each): it ends with 201 at
\* the first add_url that returns True, a pass that fails is followed by the
\* next pass, and the 5th failed pass ends it with the 500. It always ends:
\* its thread can take a step, or waits for the lock whose holder can take
\* one, and every step it takes brings it further, within the 5 passes.
C9_BoundedAttempts ==
    /\ [](\A t \in Threads :
             req[t].kind = "shorten"
             => /\ req[t].attempt \in 0..4
                /\ C9_Progress(t) < 5 * 10
                /\ \/ ENABLED ThreadStep(t)
                   \/ /\ op[t].pc = "acquire"
                      /\ lockOwner \in Threads \ {t}
                      /\ ENABLED StoreStep(lockOwner))
    /\ [][\A t \in Threads :
             /\ (req[t].kind = "shorten" /\ req[t].pc = "add" /\ req'[t] # req[t])
                    => IF op[t].ret = TRUE
                       THEN /\ req'[t].kind = "none"
                            /\ resp'[t].status = 201
                            /\ resp'[t].code = req[t].code
                       ELSE C9_PassFailed(t)
             /\ (req[t].kind = "shorten" /\ req[t].pc = "snapshot" /\ req'[t] # req[t])
                    => \/ /\ req'[t] = [req[t] EXCEPT !.pc = "add", !.code = req'[t].code]
                          /\ op'[t].name = "add_url" /\ op'[t].pc = "acquire"
                       \/ C9_PassFailed(t)
             /\ (resp'[t] = UnableToGenerate /\ resp[t] # UnableToGenerate)
                    => req[t].kind = "shorten" /\ req[t].attempt = 4
             /\ (/\ req[t].kind = "shorten" /\ req'[t].kind = "shorten"
                 /\ (req'[t] # req[t] \/ op'[t].pc # op[t].pc))
                    => C9_Progress(t)' > C9_Progress(t)]_vars

\* A shorten request has ended with the 500 after its passes failed, another
\* with 201
C9_Witness ==
    \E t \in Threads :
        /\ resp[t] = UnableToGenerate /\ req[t].kind = "none"
        /\ Len(issued) >= 1

-----------------------------------------------------------------------------
(* Claims about the generator *)

\* C10: generate_short_code never returns a member of existing_codes. It
\* returns the first drawn code that is not in existing_codes, so after one
\* draw more than it drew members; it raises only after exactly 100 draws,
\* all of them members; a free code drawn as the 100th is returned. Each
\* outcome is one of generate_short_code(length, existing_codes).
C10_NeverReturnsExisting ==
    /\ gen.draws <= 100
    /\ gen.pc = "returned"
           => /\ gen.code \notin gen.existing_codes
              /\ gen.draws = gen.collisions + 1
              /\ [ok |-> TRUE, code |-> gen.code, draws |-> gen.draws]
                     \in generate_short_code(gen.length, gen.existing_codes)
    /\ gen.pc = "raised"
           => /\ gen.draws = 100
              /\ gen.collisions = 100
              /\ [ok |-> FALSE, code |-> EmptyStr, draws |-> 100]
                     \in generate_short_code(gen.length, gen.existing_codes)

\* A free code drawn as the 100th draw, after 99 members, has been returned
C10_Witness ==
    /\ gen.pc = "returned"
    /\ gen.draws = 100
    /\ gen.collisions = 99
    /\ gen.existing_codes # {}

-----------------------------------------------------------------------------
(* Claims about redirects and their visits *)

\* The redirect requests on code c whose increment_clicks has stored the new
\* clicks and that have not answered yet
Counted(c) ==
    {t \in Threads : /\ req[t].kind = "redirect" /\ req[t].pc = "count" /\ req[t].code = c
                     /\ op[t].pc \in {"touch", "release", "done"}}

\* C13: a redirect request on a stored code is answered 302 with the stored
\* url after exactly one visit was recorded: the clicks of a code are the
\* number of its 302 responses, plus one for each redirect that has counted
\* and not answered yet, so n after n redirects; get_stats returns that
\* number; and no step of a redirect request that is answered 404 changes
\* the store.
C13_OneVisitPerRedirect ==
    /\ [](\A c \in DOMAIN urls : urls[c].clicks = redirects[c] + Cardinality(Counted(c)))
    /\ [][\A t \in Threads :
             /\ (req[t].kind = "redirect" /\ req'[t].kind = "none" /\ resp'[t].status = 302)
                    => /\ req[t].code \in DOMAIN urls
                       /\ resp'[t].url = urls[req[t].code].url
                       /\ redirects'[req[t].code] = redirects[req[t].code] + 1
                       /\ visits[req[t].code] >= redirects'[req[t].code]
                       /\ urls' = urls
             /\ (req[t].kind = "redirect" /\ req[t].pc = "lookup"
                     /\ (op'[t] # op[t] \/ req'[t] # req[t]))
                    => /\ urls' = urls
                       /\ redirects' = redirects
             /\ (Idle(t) /\ started' # started /\ req'[t].kind = "none")
                    => urls' = urls /\ redirects' = redirects
             /\ (req[t].kind = "redirect" /\ req'[t].kind = "none")
                    => resp'[t].status \in {302, 404}
             /\ (req[t].kind = "stats" /\ req'[t].kind = "none" /\ resp'[t].status = 200)
                    => resp'[t].clicks <= urls[req[t].code].clicks]_vars

\* Two redirects of one code have been answered 302 and its clicks are 2
C13_Witness ==
    \E c \in DOMAIN urls, t1, t2 \in Threads :
        /\ redirects[c] = 2 /\ urls[c].clicks = 2
        /\ resp[t1].status = 302 /\ resp[t1].code = c
        /\ Idle(t1) /\ Idle(t2)

-----------------------------------------------------------------------------
(* Claims about the errors of redirect and stats requests *)

\* At least 3 characters, all of them letters or digits
WellFormed(c) ==
    /\ Len(c) >= 3
    /\ \A k \in 1..Len(c) : c[k] \in ascii_lowercase \cup ascii_uppercase \cup digits

\* C14: a redirect or stats request whose lookup misses is answered 404
\* 'Invalid short code format' when its code is not well-formed ("fg",
\* "fg-h") and 404 'Short code not found' when it is; the lookup misses only
\* when the code has no record, a request whose lookup finds a record is
\* answered with neither error, and no stored code is blank or malformed.
C14_ErrorKindByFormat ==
    /\ [](\A c \in DOMAIN urls : WellFormed(c) /\ ~IsBlank(c))
    /\ [][\A t \in Threads :
             /\ (req[t].kind \in {"redirect", "stats"} /\ req[t].pc = "lookup"
                     /\ req'[t] # req[t])
                    => IF op[t].ret = NoneVal
                       THEN /\ req'[t].kind = "none"
                            /\ resp'[t] = Error(404, IF WellFormed(req[t].code)
                                                     THEN "Short code not found"
                                                     ELSE "Invalid short code format")
                       ELSE /\ resp'[t].status \in {0, 200}
                            /\ resp'[t].error = ""
             /\ (req[t].kind \in {"redirect", "stats"} /\ req[t].pc = "lookup"
                     /\ op[t].pc = "body" /\ Stepped(t))
                    => (op'[t].ret = NoneVal) <=> (req[t].code \notin DOMAIN urls)
             /\ (req[t].kind = "redirect" /\ req[t].pc = "count" /\ req'[t] # req[t])
                    => resp'[t].status = 302 /\ resp'[t].error = ""]_vars

\* With a record in the store, a request on "fg" or "fg-h" has been answered
\* 'Invalid short code format' and one on a well-formed code without a
\* record 'Short code not found'
C14_Witness ==
    \E t1, t2 \in Threads :
        /\ resp[t1] = Error(404, "Invalid short code format")
        /\ resp[t2] = Error(404, "Short code not found")
        /\ op[t1].name \in {"get_url", "get_stats"} /\ ~WellFormed(op[t1].code)
        /\ op[t2].name \in {"get_url", "get_stats"} /\ WellFormed(op[t2].code)
        /\ DOMAIN urls # {}

-----------------------------------------------------------------------------
(* Claims about increment_clicks *)

\* Every record but that of code c, and the url and created_at of its own,
\* are left as they were
C15_Frame(c) ==
    /\ DOMAIN urls' = DOMAIN urls
    /\ \A d \in DOMAIN urls \ {c} : urls'[d] = urls[d]
    /\ urls'[c].url = urls[c].url
    /\ urls'[c].created_at = urls[c].created_at

\* C15: on a present code increment_clicks adds exactly 1 to the clicks of
\* its record, sets its last_accessed to a timestamp and returns True, and
\* changes nothing else: not its url, not its created_at, no other record. On
\* an absent code it returns False, changes nothing and creates no record.
C15_IncrementFrame ==
    [][\A t \in Threads :
          (op[t].name = "increment_clicks" /\ Stepped(t))
          => /\ op[t].pc \in {"acquire", "release"} => urls' = urls
             /\ (op[t].pc = "body" /\ op[t].code \notin DOMAIN urls)
                    => /\ urls' = urls
                       /\ op'[t].pc = "release" /\ op'[t].ret = FALSE
             /\ (op[t].pc = "body" /\ op[t].code \in DOMAIN urls)
                    => /\ urls' = urls
                       /\ op'[t].pc = "store"
             /\ op[t].pc = "store"
                    => /\ op[t].code \in DOMAIN urls
                       /\ urls'[op[t].code].clicks = urls[op[t].code].clicks + 1
                       /\ urls'[op[t].code].last_accessed = urls[op[t].code].last_accessed
                       /\ C15_Frame(op[t].code)
             /\ op[t].pc = "touch"
                    => /\ urls'[op[t].code].clicks = urls[op[t].code].clicks
                       /\ urls'[op[t].code].last_accessed.some
                       /\ urls'[op[t].code].last_accessed.val \in 0..MaxTime
                       /\ C15_Frame(op[t].code)
                       /\ op'[t].pc = "release" /\ op'[t].ret = TRUE
             /\ op[t].pc = "release"
                    => /\ op[t].ret \in BOOLEAN
                       /\ op[t].ret <=> op[t].code \in DOMAIN urls
                       /\ op'[t].pc = "done" /\ op'[t].ret = op[t].ret]_vars

\* increment_clicks has returned True on a code with a record and False on a
\* code without one, and no record was created for the latter
C15_Witness ==
    \E t1, t2 \in Threads :
        /\ Returned(t1, "increment_clicks") /\ op[t1].ret = TRUE
        /\ urls[op[t1].code].clicks = 1
        /\ urls[op[t1].code].last_accessed.some
        /\ Returned(t2, "increment_clicks") /\ op[t2].ret = FALSE
        /\ op[t2].code \notin DOMAIN urls

-----------------------------------------------------------------------------
(* Claims about the two store calls of a redirect *)

\* C16: the increment_clicks call that redirect_url makes after get_url
\* returned a url is on the same code, and no step of a request removes a
\* record, so the call returns False only when the record was removed under
\* the request (which only the fixture's clear does); and whatever the call
\* returned, the request ends in the 302 to the url that get_url returned.
C16_RedirectSurvivesMiss ==
    [][/\ (DOMAIN urls \ DOMAIN urls' # {}) => (urls' = <<>> /\ op' = op /\ req' = req)
       /\ \A t \in Threads :
             /\ (req[t].kind = "redirect" /\ req[t].pc = "lookup" /\ req'[t].pc = "count")
                    => /\ op[t].ret.some
                       /\ req'[t].url = Str(op[t].ret.val)
                       /\ op'[t].name = "increment_clicks" /\ op'[t].code = req[t].code
                       /\ op'[t].pc = "acquire"
             /\ (req[t].kind = "redirect" /\ req[t].pc = "count" /\ Stepped(t)
                     /\ op'[t].pc = "release" /\ op'[t].ret = FALSE)
                    => /\ Len(addedBy[req[t].code]) >= 1
                       /\ req[t].code \notin DOMAIN urls
             /\ (req[t].kind = "redirect" /\ req[t].pc = "count" /\ req'[t] # req[t])
                    => /\ req'[t].kind = "none"
                       /\ op[t].name = "increment_clicks" /\ op[t].pc = "done"
                       /\ resp'[t].status = 302
                       /\ resp'[t].url = req[t].url.s
                       /\ resp'[t].url \in SampleUrls]_vars

\* A redirect has ended in the 302 to the looked-up url after its
\* increment_clicks returned False
C16_Witness ==
    \E t \in Threads :
        /\ Returned(t, "increment_clicks") /\ op[t].ret = FALSE
        /\ req[t].kind = "none"
        /\ resp[t].status = 302 /\ resp[t].code = op[t].code
        /\ resp[t].url \in SampleUrls
        /\ op[t].code \notin DOMAIN urls

-----------------------------------------------------------------------------
(* Claims about the validators *)

\* Letters and digits, those outside ASCII included
Alphanumeric(ch) ==
    ch \in ascii_lowercase \cup ascii_uppercase \cup digits \cup {"U+00E9", "U+00B2"}

\* C17: is_valid_short_code returns True exactly when its argument is a
\* string of at least 3 characters that are all alphanumeric. It returns
\* False for a value that is no string, for the empty string, for a string of
\* fewer than 3 characters and for a string with punctuation or whitespace
\* in it; and it returns True for every code of 6 characters of the safe
\* alphabet.
C17_ValidShortCode ==
    (util.fn = "is_valid_short_code" /\ util.pc = "returned")
    => LET code == util.arg
       IN  /\ util.ret <=> /\ code.type = "str"
                           /\ Len(code.s) >= 3
                           /\ \A k \in 1..Len(code.s) : Alphanumeric(code.s[k])
           /\ code.type # "str" => ~util.ret
           /\ Len(code.s) < 3 => ~util.ret
           /\ (\E k \in 1..Len(code.s) : code.s[k] \in {"-", "_", " "}) => ~util.ret
           /\ (code.type = "str" /\ Len(code.s) = 6
                  /\ \A k \in 1..Len(code.s) : code.s[k] \in safe_chars) => util.ret

\* is_valid_short_code has returned True for a string of exactly 3
\* alphanumeric characters
C17_Witness ==
    /\ util.fn = "is_valid_short_code" /\ util.pc = "returned"
    /\ util.arg = Str(<<"a", "Z", "7">>)
    /\ util.ret = TRUE

\* The candidate starts with http or https in any case, then "://", then a
\* host of at least one character
HttpUrlWithHost(v) ==
    /\ v.type = "str"
    /\ \E n \in {4, 5} :
           /\ Len(v.s) >= n + 4
           /\ v.s[1] \in {"h", "H"} /\ v.s[2] \in {"t", "T"}
           /\ v.s[3] \in {"t", "T"} /\ v.s[4] \in {"p", "P"}
           /\ n = 5 => v.s[5] \in {"s", "S"}
           /\ v.s[n + 1] = ":" /\ v.s[n + 2] = "/" /\ v.s[n + 3] = "/"
           /\ v.s[n + 4] \notin {"/", "?", "#", ":"}

\* C18: validate_url accepts a candidate only if it is a string that starts
\* with the scheme http or https, in any case, then "://" and a host that is
\* not empty. A shorten request whose url is anything else (another scheme
\* or none, no host, the empty string, a value that is no string) is
\* answered 400 'Invalid URL format' without a call of the store, so no
\* such value is ever stored or answered 201.
C18_OnlyHttpUrlsAccepted ==
    /\ [](/\ \A c \in DOMAIN urls : HttpUrlWithHost(Str(urls[c].url))
          /\ \A i \in 1..Len(issued) : HttpUrlWithHost(Str(issued[i][2]))
          /\ \A t \in Threads :
                 /\ req[t].kind = "shorten" => HttpUrlWithHost(req[t].url)
                 /\ op[t].name = "add_url" => HttpUrlWithHost(Str(op[t].url)))
    /\ [][\A t \in Threads :
             (req[t].kind = "shorten_body" /\ req'[t] # req[t])
             => /\ validate_url(req[t].url) => HttpUrlWithHost(req[t].url)
                /\ ~HttpUrlWithHost(req[t].url)
                       => /\ req'[t].kind = "none"
                          /\ resp'[t] = Error(400, "Invalid URL format")
                          /\ urls' = urls /\ op' = op
                /\ req[t].url \in {Str(u) : u \in SampleUrls}
                       => /\ req'[t].kind = "shorten"
                          /\ req'[t].url = req[t].url]_vars

\* A shorten request was answered 400 'Invalid URL format' and the url of
\* another, with its scheme in upper case, is stored
C18_Witness ==
    \E t \in Threads, c \in DOMAIN urls :
        /\ resp[t] = Error(400, "Invalid URL format")
        /\ req[t].kind = "none"
        /\ urls[c].url[1] = "H"
        /\ Len(issued) = 1

-----------------------------------------------------------------------------
(* Claims about the lock *)

\* The threads inside a `with self._lock:` section
InCriticalSection == {t \in Threads : op[t].pc \notin {"none", "acquire", "done"}}

\* C19: no method of the store takes the lock while its thread holds it: the
\* recursion level of the lock is never above 1 and every acquire finds the
\* lock free, as with a mutex that is not reentrant. At most one call is
\* inside a critical section at any time, and it is the owner's. Under fair
\* scheduling every call that was started acquires the lock, completes and
\* releases it.
C19_NoNestedLocking ==
    /\ [](/\ lockCount \in {0, 1}
          /\ (lockCount = 0) <=> (lockOwner = NoThread)
          /\ Cardinality(InCriticalSection) <= 1
          /\ InCriticalSection = {t \in Threads : lockOwner = t})
    /\ [][(lockCount' > lockCount) => (lockCount = 0 /\ lockOwner = NoThread)]_vars
    /\ \A t \in Threads :
           (op[t].pc = "acquire") ~> (op[t].pc = "done" /\ lockOwner # t)

\* A call waits for the lock while the call of another thread is inside its
\* critical section
C19_Witness ==
    \E t1, t2 \in Threads :
        /\ op[t1].pc = "acquire"
        /\ op[t2].pc \in {"insert", "store", "touch"}
        /\ lockOwner = t2

-----------------------------------------------------------------------------
(* Claims about the fields of a record *)

\* An increment_clicks call on code c is between its write of clicks and its
\* write of last_accessed, inside its critical section
BetweenWrites(c) ==
    \E t \in Threads : op[t].name = "increment_clicks" /\ op[t].pc = "touch" /\ op[t].code = c

\* C20: the clicks of a stored record are never negative, and its
\* last_accessed is None exactly when its clicks are 0, in every state but
\* those inside the critical section of increment_clicks between its two
\* writes, which no reader sees: every record get_stats returns has
\* last_accessed None exactly when its clicks are 0. A record add_url has
\* just inserted has clicks 0 and last_accessed None.
C20_AccessedIffClicked ==
    /\ [](\A c \in DOMAIN urls :
             /\ urls[c].clicks \in Nat
             /\ ~BetweenWrites(c) => ((urls[c].last_accessed = NoneVal) <=> (urls[c].clicks = 0))
             /\ BetweenWrites(c) => lockOwner # NoThread)
    /\ [][\A t \in Threads :
             /\ (Stepped(t) /\ op[t].name = "add_url" /\ op[t].pc = "insert")
                    => /\ urls'[op[t].code].clicks = 0
                       /\ urls'[op[t].code].last_accessed = NoneVal
             /\ (Stepped(t) /\ op[t].name = "get_stats" /\ op[t].pc = "body"
                     /\ op[t].code \in DOMAIN urls)
                    => ((op'[t].ret.val.last_accessed = NoneVal)
                            <=> (op'[t].ret.val.clicks = 0))]_vars

\* Of two records one was visited and has its last_accessed set, the other
\* was not and has none
C20_Witness ==
    \E c, d \in DOMAIN urls :
        /\ urls[c].clicks = 1 /\ urls[c].last_accessed.some
        /\ urls[d].clicks = 0 /\ urls[d].last_accessed = NoneVal
        /\ lockOwner = NoThread

\* The five requests of ConcSpec that have answered 201
Created == {t \in Shorteners : resp[t].status = 201}

\* The 201 responses carry pairwise distinct codes, and each code maps in the
\* store to the url of the request that received it
C12_OwnDistinctCodes ==
    /\ \A t \in Created :
           /\ resp[t].code \in DOMAIN urls
           /\ urls[resp[t].code].url = test_urls[t]
    /\ \A t, u \in Created : t # u => resp[t].code # resp[u].code

InShorten(t) == req[t].kind \in {"shorten_body", "shorten"}

\* The shorten requests whose add_url has stored their record and that have
\* not answered yet
Inserted ==
    {t \in Threads : /\ req[t].kind = "shorten" /\ req[t].pc = "add"
                     /\ op[t].name = "add_url" /\ op[t].pc \in {"release", "done"}
                     /\ op[t].ret = TRUE}

\* C22: the store holds one record per 201 answered (and one per request
\* about to answer 201), whatever 400 and 500 responses were given. The only
\* step of a shorten request that changes the store is the insert of add_url,
\* which adds exactly the record of the request and is followed by its 201;
\* no step of a shorten request changes or removes an existing record; the
\* steps that answer 400 or 500 change nothing, in requests that have stored
\* nothing; the step that answers 201 ends a request that stored its record.
C22_OnlyCreatedInserts ==
    /\ [](Cardinality(DOMAIN urls) = Len(issued) + Cardinality(Inserted))
    /\ [][/\ DOMAIN urls \subseteq DOMAIN urls'
          /\ urls' # urls
                 => \E t \in Threads :
                        /\ Stepped(t)
                        /\ op[t].name \in {"add_url", "increment_clicks"}
                        /\ op[t].name = "add_url" <=> InShorten(t)
          /\ \A t \in Threads :
                 /\ (InShorten(t) /\ (Stepped(t) \/ req'[t] # req[t]))
                        => /\ \A c \in DOMAIN urls : urls'[c] = urls[c]
                           /\ urls' # urls
                                  => /\ op[t].name = "add_url" /\ op[t].pc = "insert"
                                     /\ DOMAIN urls' = DOMAIN urls \cup {req[t].code}
                                     /\ req[t].code \notin DOMAIN urls
                                     /\ urls'[req[t].code].url = req[t].url.s
                                     /\ urls'[req[t].code].clicks = 0
                                     /\ t \notin Inserted /\ t \in Inserted'
                 /\ (resp'[t] # resp[t] /\ resp'[t].status \in {400, 500})
                        => /\ urls' = urls
                           /\ t \notin Inserted
                 /\ (resp'[t] # resp[t] /\ resp'[t].status = 201)
                        => /\ urls' = urls
                           /\ t \in Inserted
                           /\ urls[resp'[t].code].url = req[t].url.s
                 /\ (t \in Inserted /\ req'[t] # req[t])
                        => resp'[t].status = 201]_vars

\* One shorten request was answered 201, one the 500 after its 5 passes and
\* one 400 for its url; the store holds the one record of the first
C22_Witness ==
    \E t, u \in Threads :
        /\ resp[t] = UnableToGenerate
        /\ resp[u] = Error(400, "Invalid URL format")
        /\ Len(issued) = 1
        /\ DOMAIN urls = {issued[1][1]}
        /\ urls[issued[1][1]].url = issued[1][2]

\* C23: in the service driven by its request handlers, every stored code has
\* 6 characters, all of the safe alphabet, and satisfies is_valid_short_code,
\* and every stored url satisfies validate_url; so a redirect (302) or stats
\* (200) response, given after a lookup that precedes the format check, is
\* always for a stored code that satisfies is_valid_short_code, and carries
\* the url of its record.
C23_StoredWellFormed ==
    /\ [](\A c \in DOMAIN urls :
             /\ Len(c) = DefaultLength
             /\ \A k \in 1..Len(c) : c[k] \in safe_chars
             /\ is_valid_short_code(Str(c))
             /\ validate_url(Str(urls[c].url)))
    /\ [][\A t \in Threads :
             (resp'[t] # resp[t] /\ resp'[t].status \in {200, 302})
                 => /\ req[t].kind \in {"redirect", "stats"}
                    /\ is_valid_short_code(Str(req[t].code))
                    /\ req[t].code \in DOMAIN urls
                    /\ resp'[t].url = urls[req[t].code].url]_vars

\* A redirect was answered 302 for a stored code, while the lookup of
\* another request, for the code "fg-h", has come back empty
C23_Witness ==
    \E t, u \in Threads :
        /\ resp[t].status = 302 /\ resp[t].code \in DOMAIN urls
        /\ req[u].kind \in {"redirect", "stats"}
        /\ req[u].code = <<"f","g","-","h">>
        /\ op[u].pc = "done" /\ op[u].ret = NoneVal

====
